---- MODULE Spec2Model ----
(***************************************************************************)
(* Model of switzerland/scrape_and_viz.py: the word-averaging vectorizer   *)
(* (get_vector_freetext), the optimal-k selector (find_optimal_k) and the  *)
(* three visualization pipelines (viz_job_data, viz_job_data_word2vec,     *)
(* vizjobs_googleUSE).                                                     *)
(*                                                                         *)
(* Five specifications share the module:                                   *)
(*   SpecVec      get_vector_freetext applied to every bounded text        *)
(*   Spec         one pipeline invocation, statement by statement          *)
(*   SpecTwoRuns  vizjobs_googleUSE run twice on the same records, the     *)
(*                second time with the other viz_type                      *)
(*   SpecMain     the __main__ script: flags, model loading, the calls     *)
(*   SpecText     text_first_N and the fields of a plotted point           *)
(* Library calls (sklearn, kneed, texthero, pandas, numpy) are modelled by *)
(* their documented contract at the call site that uses them.              *)
(***************************************************************************)
EXTENDS Integers, Sequences, FiniteSets, TLC

VARIABLES
    \* ---- get_vector_freetext (SpecVec) ----
    input_text,       \* the text argument: a sequence of characters
    cutoff,           \* the cutoff argument
    w2v_model,        \* the embedding source handed to the vectorizer
    vcalls,           \* number of completed calls on input_text
    usable_words,     \* local of the last call
    list_of_vectors,  \* local of the last call
    num_excluded,     \* local of the last call
    rep_vec,          \* value returned by the last call
    prev_rep_vec,     \* value returned by the call before it
    voutcome,         \* "idle" | "returned" | "raised"
    \* ---- one pipeline invocation (Spec) ----
    pc,               \* position in the entry point
    entry,            \* "tfidf" | "w2v" | "use" | "direct"
    viz_df,           \* the frame: sequence of rows [idx, text, missing]
    max_clusters,     \* max_clusters / top_end argument of the call
    viz_type,         \* "pca" | "tsne"
    vectors,          \* the vector column, one entry per row
    top_end,          \* top_end find_optimal_k was invoked with (0: not invoked)
    runs,             \* every k a KMeans(n_clusters=k).fit was attempted with
    curve,            \* x values zipped with sse and handed to KneeLocator
    onk,              \* kl.elbow
    warned,           \* warnings.warn calls made by find_optimal_k
    kmeans_numC,      \* value find_optimal_k returned to the caller
    n_clusters,       \* n_clusters handed to the final hero.kmeans (0: not called)
    labels,           \* the kmeans column, one entry per row
    proj,             \* the pca / TSNE column, one entry per row
    points,           \* rows of the frame handed to px.scatter
    shown,            \* the scatter figure was shown
    abort_at,         \* statement that raised ("" while none has)
    \* ---- more of the pipeline invocation ----
    show_plot,        \* show_plot argument of find_optimal_k
    write_image,      \* write_image argument of find_optimal_k
    fk,               \* the elbow chart f_k: marker, shown, written
    trace,            \* the scaler / K-means calls made so far, in order
    caller_cols,      \* columns of the frame object the caller passed in
    kl_memo,          \* the elbow KneeLocator gave for this data, once known
    run_no,           \* 1, or 2 in the second of two runs
    first_run,        \* what the first of two runs computed
    \* ---- the __main__ script (SpecMain) ----
    main_pc,          \* position in the script
    using_google_USE, \* flag
    using_gensim_w2v, \* flag
    loads,            \* how often each embedding source was loaded
    call_no,          \* number of the visualization call being made
    call_source,      \* embedding source of the call being made
    \* ---- text_first_N and the plotted fields (SpecText) ----
    t_text,           \* the text argument
    t_num,            \* the num argument
    t_once,           \* text_first_N(text, num)
    t_twice,          \* text_first_N(text_first_N(text, num), num)
    t_show_text,      \* show_text argument of the visualization call
    t_plot,           \* hover fields and text label of the plotted point
    t_pc              \* "idle" | "ready" | "applied" | "plotted"

vvars == <<input_text, cutoff, w2v_model, vcalls, usable_words,
           list_of_vectors, num_excluded, rep_vec, prev_rep_vec, voutcome>>
pvars == <<pc, entry, viz_df, max_clusters, viz_type, vectors, top_end, runs,
           curve, onk, warned, kmeans_numC, n_clusters, labels, proj, points,
           shown, abort_at>>
xvars == <<show_plot, write_image, fk, trace, caller_cols, kl_memo, run_no, first_run>>
mvars == <<main_pc, using_google_USE, using_gensim_w2v, loads, call_no, call_source>>
tvars == <<t_text, t_num, t_once, t_twice, t_show_text, t_plot, t_pc>>
vars == <<vvars, pvars, xvars, mvars, tvars>>

(***************************************************************************)
(* Bounds                                                                  *)
(***************************************************************************)
MaxTextLen == 5
MaxCutoff == 2
MaxCalls == 2
MaxRecords == 3
MaxTopEnd == 4
MaxIndexShift == 1

\* Program constants
DefaultCutoff == 2
DefaultMaxClusters == 15
DefaultTopEnd == 11
TfidfClusters == 5
FallbackClusters == 5
PcaComponents == 2

None == 0

(***************************************************************************)
(* Texts                                                                   *)
(***************************************************************************)
Alphabet == {"a", "A", "q", " "}

RECURSIVE SeqsUpTo(_, _)
SeqsUpTo(S, n) ==
    IF n = 0 THEN {<<>>}
    ELSE LET shorter == SeqsUpTo(S, n - 1)
         IN  shorter \cup {Append(s, c) : s \in {t \in shorter : Len(t) = n - 1}, c \in S}

Texts == SeqsUpTo(Alphabet, MaxTextLen)

\* str.lower(), character by character
LowerChar(c) == IF c = "A" THEN "a" ELSE c
Lower(text) == [i \in 1..Len(text) |-> LowerChar(text[i])]

\* str.split(" "): every single space separates, so "" gives [""] and
\* consecutive spaces give empty words
RECURSIVE SplitFrom(_, _, _, _)
SplitFrom(text, i, word, acc) ==
    IF i > Len(text) THEN Append(acc, word)
    ELSE IF text[i] = " " THEN SplitFrom(text, i + 1, <<>>, Append(acc, word))
    ELSE SplitFrom(text, i + 1, Append(word, text[i]), acc)
SplitSpace(text) == SplitFrom(text, 1, <<>>, <<>>)

\* the condition of: [word for word in input_words if len(word) > cutoff]
KeepWord(word, c) == Len(word) > c

RECURSIVE FilterWords(_, _)
FilterWords(words, c) ==
    IF words = <<>> THEN <<>>
    ELSE IF KeepWord(Head(words), c)
         THEN <<Head(words)>> \o FilterWords(Tail(words), c)
         ELSE FilterWords(Tail(words), c)

UsableWords(text, c) == FilterWords(SplitSpace(Lower(text)), c)

(***************************************************************************)
(* Embedding source                                                        *)
(***************************************************************************)
\* A loaded model either exposes .wv (gensim 3 KeyedVectors) or does not
\* (gensim 4); the vocabulary holds the words spelt with "a" only.
Models == {[has_wv |-> TRUE], [has_wv |-> FALSE]}
InVocab(word) == word # <<>> /\ \A i \in 1..Len(word) : word[i] = "a"
WordVec(word) == Len(word)

\* model.wv[word]: a value, or an exception (AttributeError, KeyError)
Lookup(model, word) ==
    IF model.has_wv /\ InVocab(word)
    THEN [ok |-> TRUE, vec |-> WordVec(word)]
    ELSE [ok |-> FALSE, vec |-> 0]

RECURSIVE SumSeq(_)
SumSeq(s) == IF s = <<>> THEN 0 ELSE Head(s) + SumSeq(Tail(s))

\* Values of a vector cell: a mean of n word vectors, nan, or no value
Vec(sum, n) == [kind |-> "vec", sum |-> sum, n |-> n]
NaNVec == [kind |-> "nan", sum |-> 0, n |-> 0]
NoVec == [kind |-> "none", sum |-> 0, n |-> 0]
Raised == [kind |-> "raise", sum |-> 0, n |-> 0]

\* mutant: a mean that refuses the empty list
NpMeanStrict(vecs) ==
    IF vecs = <<>> THEN Raised ELSE Vec(SumSeq(vecs), Len(vecs))
\* np.mean(list_of_vectors, axis=0): nan (with a RuntimeWarning) on the empty list
NpMean(vecs) ==
    IF vecs = <<>> THEN NaNVec ELSE Vec(SumSeq(vecs), Len(vecs))

\* mutant: a miss is skipped without being counted
RECURSIVE WordLoopNoCount(_, _, _, _)
WordLoopNoCount(model, words, vecs, excl) ==
    IF words = <<>> THEN [list_of_vectors |-> vecs, num_excluded |-> excl]
    ELSE LET r == Lookup(model, Head(words))
         IN  IF r.ok THEN WordLoopNoCount(model, Tail(words), Append(vecs, r.vec), excl)
             ELSE WordLoopNoCount(model, Tail(words), vecs, excl)
\* for word in usable_words: try: append(model.wv[word]) except: num_excluded += 1
RECURSIVE WordLoop(_, _, _, _)
WordLoop(model, words, vecs, excl) ==
    IF words = <<>> THEN [list_of_vectors |-> vecs, num_excluded |-> excl]
    ELSE LET r == Lookup(model, Head(words))
         IN  IF r.ok THEN WordLoop(model, Tail(words), Append(vecs, r.vec), excl)
             ELSE WordLoop(model, Tail(words), vecs, excl + 1)

get_vector_freetext(text, model, c) ==
    LET words == UsableWords(text, c)
        loop  == WordLoop(model, words, <<>>, 0)
        mean  == NpMean(loop.list_of_vectors)
    IN  [usable_words    |-> words,
         list_of_vectors |-> loop.list_of_vectors,
         num_excluded    |-> loop.num_excluded,
         outcome         |-> IF mean.kind = "raise" THEN "raised" ELSE "returned",
         rep_vec         |-> mean]

(***************************************************************************)
(* Values of the further state                                             *)
(***************************************************************************)
\* f_k before add_vline / show / write_image
NoChart == [marker |-> None, shown |-> FALSE, written |-> FALSE]

NoKnee == [raised |-> FALSE, elbow |-> None]
NoMemo == [set |-> FALSE, out |-> NoKnee]

NoRun == [viz_type |-> "", kmeans_numC |-> None, n_clusters |-> 0,
          labels |-> <<>>, trace |-> <<>>]

\* desired_characs without "links", which the script drops before the calls
BaseCols == {"titles", "companies", "date_listed", "summary"}

NoLoads == [use |-> 0, w2v |-> 0]

NoPlot == [hover |-> <<>>, has_label |-> FALSE, label |-> <<>>]

ExtIdle ==
    /\ show_plot = FALSE /\ write_image = FALSE /\ fk = NoChart /\ trace = <<>>
    /\ caller_cols = BaseCols /\ kl_memo = NoMemo /\ run_no = 1
    /\ first_run = NoRun

MainIdle ==
    /\ main_pc = "idle" /\ using_google_USE = FALSE /\ using_gensim_w2v = FALSE
    /\ loads = NoLoads /\ call_no = 0 /\ call_source = "none"

TextIdle ==
    /\ t_text = <<>> /\ t_num = 0 /\ t_once = <<>> /\ t_twice = <<>>
    /\ t_show_text = FALSE /\ t_plot = NoPlot /\ t_pc = "idle"

(***************************************************************************)
(* SpecVec: the vectorizer on every bounded text                           *)
(***************************************************************************)
PipelineIdle ==
    /\ pc = "idle" /\ entry = "none" /\ viz_df = <<>> /\ max_clusters = 0
    /\ viz_type = "pca" /\ vectors = <<>> /\ top_end = 0 /\ runs = <<>>
    /\ curve = <<>> /\ onk = None /\ warned = {} /\ kmeans_numC = None
    /\ n_clusters = 0 /\ labels = <<>> /\ proj = <<>> /\ points = <<>>
    /\ shown = FALSE /\ abort_at = ""

VecIdle ==
    /\ vcalls = 0 /\ usable_words = <<>> /\ list_of_vectors = <<>>
    /\ num_excluded = 0 /\ rep_vec = NoVec /\ prev_rep_vec = NoVec
    /\ voutcome = "idle"

InitVec ==
    /\ input_text \in Texts
    /\ cutoff \in 0..MaxCutoff
    /\ w2v_model \in Models
    /\ VecIdle
    /\ PipelineIdle
    /\ ExtIdle /\ MainIdle /\ TextIdle

\* One call get_vector_freetext(input_text, w2v_model, cutoff=cutoff)
GetVectorFreetext ==
    /\ voutcome # "raised"
    /\ vcalls < MaxCalls
    /\ LET r == get_vector_freetext(input_text, w2v_model, cutoff)
       IN  /\ usable_words' = r.usable_words
           /\ list_of_vectors' = r.list_of_vectors
           /\ num_excluded' = r.num_excluded
           /\ voutcome' = r.outcome
           /\ rep_vec' = r.rep_vec
    /\ prev_rep_vec' = rep_vec
    /\ vcalls' = vcalls + 1
    /\ UNCHANGED <<input_text, cutoff, w2v_model>>
    /\ UNCHANGED <<pvars, xvars, mvars, tvars>>

NextVec == GetVectorFreetext

SpecVec == InitVec /\ [][NextVec]_vars

(***************************************************************************)
(* find_optimal_k                                                          *)
(***************************************************************************)
HasNaN(vecs) == \E i \in 1..Len(vecs) : vecs[i].kind # "vec"

\* list(range(a, b))
RECURSIVE RangeSeq(_, _)
RangeSeq(a, b) == IF a >= b THEN <<>> ELSE <<a>> \o RangeSeq(a + 1, b)

\* KMeans(n_clusters=k).fit(X) on n samples raises unless 1 <= k <= n
KMeansFits(k, n) == 1 <= k /\ k <= n

\* for k in range(1, top_end): KMeans(n_clusters=k).fit(scaled_features)
RECURSIVE SweepLoop(_, _, _, _)
SweepLoop(k, te, n, done) ==
    IF k >= te THEN [runs |-> done, raised |-> FALSE]
    ELSE IF ~KMeansFits(k, n) THEN [runs |-> Append(done, k), raised |-> TRUE]
    ELSE SweepLoop(k + 1, te, n, Append(done, k))

\* KneeLocator(x, y, curve="convex", direction="decreasing").elbow: an x value
\* or None; no x raises; a single x raises or gives None, by the scipy build.
KneeOutcomes(xs) ==
    IF Len(xs) = 0 THEN {[raised |-> TRUE, elbow |-> None]}
    ELSE IF Len(xs) = 1
         THEN {[raised |-> TRUE, elbow |-> None], [raised |-> FALSE, elbow |-> None]}
         ELSE {[raised |-> FALSE, elbow |-> e] : e \in {None} \cup {xs[i] : i \in 1..Len(xs)}}

\* mutant: the no-elbow branch hands back the elbow it did not find
NoElbowReturnNone(te) == None
\* return top_end
NoElbowReturn(te) == te

SelectorRaise(at, rs, xs) ==
    [outcome |-> "raised", at |-> at, runs |-> rs, curve |-> xs, onk |-> None,
     warned |-> {}, ret |-> None]

find_optimal_k(vecs, te, knee) ==
    LET n == Len(vecs)
        first == SweepLoop(1, te, n, <<>>)
        second == SweepLoop(1, te, n, first.runs)
        xs == RangeSeq(1, te)
    IN  IF n = 0 \/ HasNaN(vecs) THEN SelectorRaise("fit_transform", <<>>, <<>>)
        ELSE IF first.raised THEN SelectorRaise("sweep", first.runs, <<>>)
        ELSE IF second.raised THEN SelectorRaise("sweep", second.runs, <<>>)
        ELSE IF knee.raised THEN SelectorRaise("KneeLocator", second.runs, xs)
        ELSE [outcome |-> "returned", at |-> "", runs |-> second.runs, curve |-> xs,
              onk |-> knee.elbow,
              warned |-> IF knee.elbow = None THEN {"no_elbow"}
                         ELSE IF knee.elbow = te THEN {"boundary"} ELSE {},
              ret |-> IF knee.elbow = None THEN NoElbowReturn(te) ELSE knee.elbow]

\* kmeans_kwargs of the sweep; algorithm is not given
SweepKwargs == [init |-> "random", n_init |-> 30, max_iter |-> 300,
                random_state |-> 42, algorithm |-> "default"]
\* keyword arguments of the callers' hero.kmeans; init is not given and
\* max_iter is the library default
HeroKwargs == [init |-> "default", n_init |-> 30, max_iter |-> 300,
               random_state |-> 42, algorithm |-> "elkan"]
NoKwargs == [init |-> "", n_init |-> 0, max_iter |-> 0, random_state |-> 0,
             algorithm |-> ""]

\* scaled_features = scaler.fit_transform(input_matrix_for_vectorization)
FitEvent == [op |-> "fit_transform", k |-> 0, X |-> "input", fit |-> 1,
             cfg |-> NoKwargs]
\* mutant: the sweep clusters the matrix it was given, not the scaled one
SweepRunUnscaled(k) == [op |-> "KMeans", k |-> k, X |-> "input", fit |-> 0,
                        cfg |-> SweepKwargs]
\* KMeans(n_clusters=k, **kmeans_kwargs).fit(scaled_features)
SweepRun(k) == [op |-> "KMeans", k |-> k, X |-> "scaled_features", fit |-> 1,
                cfg |-> SweepKwargs]
\* the calls find_optimal_k makes, given the k's its loops got to
SelectorTrace(rs) == <<FitEvent>> \o [i \in 1..Len(rs) |-> SweepRun(rs[i])]

\* lines 185-210: the no-elbow branch returns before add_vline, show and
\* write_image; the other paths reach them
ElbowChart(knee, sp, wi) ==
    IF knee.elbow = None THEN NoChart
    ELSE [marker |-> knee.elbow, shown |-> sp, written |-> wi]

(***************************************************************************)
(* The callers' statements                                                 *)
(***************************************************************************)
\* the column the entry point stores the vectors in
VecColumn(e) == IF e = "use" THEN "use_vec" ELSE IF e = "w2v" THEN "avg_vec" ELSE "tfidf"
\* the column the projection is stored in
ProjColumn(vt) == IF vt = "tsne" THEN "TSNE" ELSE "pca"

\* mutant: the clustering is piped from the projected coordinates
ClusterColumnProjected(e) == "pca"
\* viz_df["use_vec"].pipe(hero.kmeans, ...): the column that is clustered
ClusterColumn(e) == VecColumn(e)

ClusterCall(e, k) == [op |-> "hero.kmeans", k |-> k, X |-> ClusterColumn(e),
                      fit |-> 0, cfg |-> HeroKwargs]

\* mutant: the caller hands max_clusters on as it is
ClampNone(n, mc) == mc
\* if len(viz_df[col]) < max_clusters: max_clusters = len(viz_df[col])
Clamp(n, mc) == IF n < mc THEN n ELSE mc

\* if kmeans_numC is None: kmeans_numC = 5
FinalK(e, numC) ==
    IF e = "tfidf" THEN TfidfClusters
    ELSE IF numC = None THEN FallbackClusters ELSE numC

\* hero.kmeans(s, n_clusters=k): one label per row, or ValueError
HeroKMeansFits(vecs, k) == ~HasNaN(vecs) /\ KMeansFits(k, Len(vecs))

\* hero.pca / hero.tsne: one coordinate pair per row, or ValueError. PCA needs
\* as many rows as components; TSNE is taken as accepting any number of rows
\* (sklearn releases that reject perplexity >= n_samples are not modelled).
ProjectionFits(vecs, vt) ==
    /\ ~HasNaN(vecs)
    /\ vt = "pca" => Len(vecs) >= PcaComponents

\* hero.clean + hero.tfidf: raises when no row has a word
HasWord(text) == \E i \in 1..Len(text) : text[i] # " "
TfidfFits(df) == \E i \in 1..Len(df) : HasWord(df[i].text)

RowVector(e, model, text) ==
    IF e = "w2v" THEN get_vector_freetext(text, model, DefaultCutoff).rep_vec
    ELSE Vec(Len(text), 1)

\* pd.concat([viz_df, df_split], axis=1): the outer join of viz_df's index with
\* the RangeIndex of the frame built from the coordinate list
RowOf(df, lab) == IF \E p \in 1..Len(df) : df[p].idx = lab
                  THEN CHOOSE p \in 1..Len(df) : df[p].idx = lab ELSE 0
ConcatRow(df, labs, coords, lab) ==
    LET p == RowOf(df, lab)
    IN  [idx |-> lab, rec |-> p,
         kmeans |-> IF p = 0 THEN 0 ELSE labs[p],
         coord |-> IF lab < Len(coords) THEN coords[lab + 1] ELSE 0,
         missing |-> IF p = 0 THEN TRUE ELSE df[p].missing]
RECURSIVE SortedSeq(_)
SortedSeq(S) ==
    IF S = {} THEN <<>>
    ELSE LET m == CHOOSE x \in S : \A y \in S : x <= y
         IN  <<m>> \o SortedSeq(S \ {m})
ConcatIndex(df, n, sorted) ==
    LET own == {df[p].idx : p \in 1..Len(df)}
        all == own \cup 0..(n - 1)
    IN  IF sorted THEN SortedSeq(all)
        ELSE [p \in 1..Len(df) |-> df[p].idx] \o SortedSeq(all \ own)
Concat(df, labs, coords, sorted) ==
    LET ix == ConcatIndex(df, Len(coords), sorted)
    IN  [j \in 1..Len(ix) |-> ConcatRow(df, labs, coords, ix[j])]

Complete(row) == row.rec # 0 /\ row.kmeans # 0 /\ row.coord # 0
\* viz_df.dropna(inplace=True): a row with NaN in any column goes
DropNa(rows) == SelectSeq(rows, LAMBDA r : Complete(r) /\ ~r.missing)

\* the frame handed to px.scatter
Assembled(e, df, labs, coords, sorted) ==
    IF e = "use" THEN DropNa(Concat(df, labs, coords, sorted))
    ELSE Concat(df, labs, coords, sorted)

(***************************************************************************)
(* Spec: one invocation of an entry point                                  *)
(***************************************************************************)
TextPool == {<<>>, <<"A", "a", "a">>, <<"q", "q", "q">>}

Frames ==
    UNION {
        {[p \in 1..n |-> [idx |-> p - 1 + off, text |-> ts[p], missing |-> ms[p]]] :
            ts \in [1..n -> TextPool], off \in 0..MaxIndexShift, ms \in [1..n -> BOOLEAN]}
        : n \in 1..MaxRecords}

\* a caller's matrix of n usable vectors, as a frame
PlainFrames ==
    {[p \in 1..n |-> [idx |-> p - 1, text |-> <<"A", "a", "a">>, missing |-> FALSE]] :
        n \in 1..MaxRecords}

Init ==
    /\ input_text = <<>> /\ cutoff = DefaultCutoff
    /\ VecIdle
    /\ entry \in {"tfidf", "w2v", "use", "direct"}
    /\ viz_df \in IF entry = "direct" THEN PlainFrames ELSE Frames
    /\ w2v_model \in IF entry = "w2v" THEN Models ELSE {[has_wv |-> TRUE]}
    /\ max_clusters \in
         CASE entry = "w2v" -> (2..MaxTopEnd) \cup {DefaultMaxClusters}
           [] entry = "direct" -> (2..MaxTopEnd) \cup {DefaultTopEnd}
           [] entry = "use" -> {DefaultMaxClusters}
           [] OTHER -> {0}
    /\ viz_type \in IF entry = "use" THEN {"pca", "tsne"} ELSE {"pca"}
    /\ pc = "vectorize"
    /\ vectors = <<>> /\ top_end = 0 /\ runs = <<>> /\ curve = <<>>
    /\ onk = None /\ warned = {} /\ kmeans_numC = None /\ n_clusters = 0
    /\ labels = <<>> /\ proj = <<>> /\ points = <<>> /\ shown = FALSE
    /\ abort_at = ""
    /\ show_plot \in IF entry = "direct" THEN BOOLEAN ELSE {FALSE}
    /\ write_image \in IF entry = "direct" THEN BOOLEAN ELSE {FALSE}
    /\ fk = NoChart /\ trace = <<>> /\ caller_cols = BaseCols
    /\ kl_memo = NoMemo /\ run_no = 1 /\ first_run = NoRun
    /\ MainIdle /\ TextIdle

N == Len(viz_df)

Abort(at) == pc' = "aborted" /\ abort_at' = at

\* viz_df[col] = the vector of every row's text
Vectorize ==
    /\ pc = "vectorize"
    /\ IF entry = "tfidf" /\ ~TfidfFits(viz_df)
       THEN /\ Abort("tfidf")
            /\ UNCHANGED <<vectors, caller_cols>>
       ELSE /\ vectors' = [p \in 1..N |-> RowVector(entry, w2v_model, viz_df[p].text)]
            /\ caller_cols' = IF entry = "direct" THEN caller_cols
                              ELSE caller_cols \cup {VecColumn(entry)}
            /\ pc' = IF entry = "tfidf" THEN "cluster" ELSE "select"
            /\ UNCHANGED abort_at
    /\ UNCHANGED <<entry, viz_df, max_clusters, viz_type, top_end, runs, curve, onk,
                   warned, kmeans_numC, n_clusters, labels, proj, points, shown>>
    /\ UNCHANGED <<show_plot, write_image, fk, trace, kl_memo, run_no, first_run>>
    /\ UNCHANGED <<vvars, mvars, tvars>>

\* the clamp of max_clusters and the call of find_optimal_k
Select ==
    /\ pc = "select"
    /\ LET te == IF entry = "direct" THEN max_clusters ELSE Clamp(N, max_clusters)
       IN  \E knee \in IF kl_memo.set THEN {kl_memo.out}
                        ELSE KneeOutcomes(RangeSeq(1, te)) :
             LET r == find_optimal_k(vectors, te, knee)
             IN  /\ top_end' = te
                 /\ kl_memo' = [set |-> TRUE, out |-> knee]
                 /\ trace' = trace \o SelectorTrace(r.runs)
                 /\ fk' = IF r.outcome = "raised" THEN NoChart
                          ELSE ElbowChart(knee, show_plot, write_image)
                 /\ runs' = r.runs
                 /\ curve' = r.curve
                 /\ onk' = r.onk
                 /\ warned' = r.warned
                 /\ kmeans_numC' = r.ret
                 /\ IF r.outcome = "raised" THEN Abort(r.at)
                    ELSE /\ pc' = IF entry = "direct" THEN "done" ELSE "cluster"
                         /\ UNCHANGED abort_at
    /\ UNCHANGED <<entry, viz_df, max_clusters, viz_type, vectors, n_clusters, labels,
                   proj, points, shown>>
    /\ UNCHANGED <<show_plot, write_image, caller_cols, run_no, first_run>>
    /\ UNCHANGED <<vvars, mvars, tvars>>

\* viz_df["kmeans"] = viz_df[col].pipe(hero.kmeans, n_clusters=...)
Cluster ==
    /\ pc = "cluster"
    /\ LET k == FinalK(entry, kmeans_numC)
       IN  /\ n_clusters' = k
           /\ trace' = Append(trace, ClusterCall(entry, k))
           /\ IF HeroKMeansFits(vectors, k)
              THEN /\ labels' = [p \in 1..N |-> p]
                   /\ caller_cols' = caller_cols \cup {"kmeans"}
                   /\ pc' = "project"
                   /\ UNCHANGED abort_at
              ELSE /\ Abort("kmeans")
                   /\ UNCHANGED <<labels, caller_cols>>
    /\ UNCHANGED <<entry, viz_df, max_clusters, viz_type, vectors, top_end, runs, curve,
                   onk, warned, kmeans_numC, proj, points, shown>>
    /\ UNCHANGED <<show_plot, write_image, fk, kl_memo, run_no, first_run>>
    /\ UNCHANGED <<vvars, mvars, tvars>>

\* viz_df["pca"] = viz_df[col].pipe(hero.pca)   (hero.tsne for viz_type tsne)
Project ==
    /\ pc = "project"
    /\ IF ProjectionFits(vectors, viz_type)
       THEN /\ proj' = [p \in 1..N |-> p]
            /\ caller_cols' = caller_cols \cup {ProjColumn(viz_type)}
            /\ pc' = "assemble"
            /\ UNCHANGED abort_at
       ELSE /\ Abort("projection")
            /\ UNCHANGED <<proj, caller_cols>>
    /\ UNCHANGED <<entry, viz_df, max_clusters, viz_type, vectors, top_end, runs, curve,
                   onk, warned, kmeans_numC, n_clusters, labels, points, shown>>
    /\ UNCHANGED <<show_plot, write_image, fk, trace, kl_memo, run_no, first_run>>
    /\ UNCHANGED <<vvars, mvars, tvars>>

\* split the coordinates, drop the projection column in place, concat into a
\* new frame, (dropna,) px.scatter(...).show()
Assemble ==
    /\ pc = "assemble"
    /\ caller_cols' = caller_cols \ {ProjColumn(viz_type)}
    /\ \E sorted \in BOOLEAN :
         points' = Assembled(entry, viz_df, labels, proj, sorted)
    /\ shown' = TRUE
    /\ pc' = "done"
    /\ UNCHANGED <<entry, viz_df, max_clusters, viz_type, vectors, top_end, runs, curve,
                   onk, warned, kmeans_numC, n_clusters, labels, proj, abort_at>>
    /\ UNCHANGED <<show_plot, write_image, fk, trace, kl_memo, run_no, first_run>>
    /\ UNCHANGED <<vvars, mvars, tvars>>

Next ==
    \/ Vectorize
    \/ Select
    \/ Cluster
    \/ Project
    \/ Assemble

Spec == Init /\ [][Next]_vars

(***************************************************************************)
(* Properties of the vectorizer (SpecVec)                                  *)
(***************************************************************************)
LongEnough(words, c) == SelectSeq(words, LAMBDA w : Len(w) >= c)

\* C6: get_vector_freetext retains exactly the lower-cased, space-separated
\* tokens whose length is >= cutoff; a token of length cutoff is retained.
C6_RetainsAtLeastCutoff ==
    voutcome = "returned" =>
        usable_words = LongEnough(SplitSpace(Lower(input_text)), cutoff)

\* C7: every call returns (a vocabulary miss never raises), every retained
\* token either contributed its vector to the mean or was counted as excluded,
\* so averaged + excluded = retained, and the embedding source is left as it was.
C7_EveryTokenHandledOnce ==
    [][ /\ voutcome' = "returned"
        /\ Len(list_of_vectors') + num_excluded' = Len(usable_words')
        /\ rep_vec'.kind = "vec" => rep_vec'.n = Len(list_of_vectors')
        /\ w2v_model' = w2v_model ]_vvars

C7_Witness ==
    /\ voutcome = "returned"
    /\ Len(list_of_vectors) >= 1
    /\ num_excluded >= 1
    /\ Len(list_of_vectors) + num_excluded = Len(usable_words)

\* C8: a text with no successfully looked-up token (empty, only short tokens,
\* only out-of-vocabulary tokens) gives nan as a returned value, never a raise;
\* a second call on the same text and source returns what the first returned.
C8_NoTokenGivesNaN ==
    /\ (voutcome # "idle" /\ list_of_vectors = <<>>) =>
           (voutcome = "returned" /\ rep_vec = NaNVec)
    /\ (vcalls >= 2 /\ voutcome = "returned") => rep_vec = prev_rep_vec

C8_Witness ==
    /\ vcalls = 2
    /\ voutcome = "returned"
    /\ usable_words # <<>>
    /\ num_excluded = Len(usable_words)
    /\ rep_vec = NaNVec
    /\ prev_rep_vec = NaNVec

(***************************************************************************)
(* Properties of the selector and the pipelines (Spec)                     *)
(***************************************************************************)
Pipeline == entry \in {"w2v", "use"}

\* find_optimal_k was called and got as far as the knee search
SweepDone ==
    /\ top_end # 0
    /\ pc \notin {"vectorize", "select"}
    /\ abort_at \notin {"fit_transform", "sweep"}

\* find_optimal_k was called and returned a value
SelectorReturned == SweepDone /\ abort_at # "KneeLocator"

Last(s) == s[Len(s)]

\* C1: with top_end >= 2 the sweep runs K-means for each k in 1..top_end, so
\* the curve handed to the knee search has top_end pairs, the last for top_end.
C1_SweepIncludesTopEnd ==
    (SweepDone /\ top_end >= 2) =>
        /\ Len(curve) = top_end
        /\ Last(curve) = top_end
        /\ \A k \in 1..top_end : \E i \in 1..Len(runs) : runs[i] = k

\* C2: an elbow on the boundary of the searched range is an elbow at top_end:
\* find_optimal_k returns top_end and raises the boundary warning.
C2_BoundaryElbowWarns ==
    (SelectorReturned /\ onk # None /\ onk = Last(curve)) =>
        /\ onk = top_end
        /\ kmeans_numC = top_end
        /\ "boundary" \in warned

\* C3: when the knee search finds no elbow, find_optimal_k warns and returns
\* top_end without failing, and the calling pipeline goes on through clustering,
\* projection and the chart with that k; an elbow strictly inside the range is
\* returned with no warning.
C3_NoElbowProceeds ==
    /\ (SelectorReturned /\ onk = None) =>
          /\ "no_elbow" \in warned
          /\ kmeans_numC = top_end
          /\ pc # "aborted"
          /\ Pipeline =>
                \/ pc = "done" /\ shown /\ n_clusters = top_end
                \/ pc # "done" /\ n_clusters \in {0, top_end} /\ ENABLED Next
    /\ (SelectorReturned /\ onk # None /\ onk < top_end) =>
          (kmeans_numC = onk /\ warned = {})

C3_Witness ==
    /\ Pipeline
    /\ pc = "done"
    /\ onk = None
    /\ "no_elbow" \in warned
    /\ n_clusters = top_end
    /\ shown

\* C4: in every entry point and for every non-empty record set the cluster
\* count handed to the final K-means satisfies 1 <= K <= |Records|, and the
\* selector is only invoked with top_end >= 2.
C4_FinalKWithinRecords ==
    /\ n_clusters # 0 => (1 <= n_clusters /\ n_clusters <= N)
    /\ (entry # "direct" /\ top_end # 0) => top_end >= 2

\* C5 (as stated): find_optimal_k itself clamps, so no call of it, whatever
\* top_end it is given, runs K-means with more clusters than vectors or
\* returns a k above |vectors|.
C5_SelectorClamps ==
    /\ \A i \in 1..Len(runs) : runs[i] <= N
    /\ kmeans_numC # None => kmeans_numC <= N

\* C5 (amended): the callers clamp. In viz_job_data_word2vec and
\* vizjobs_googleUSE top_end is min(max_clusters, |vectors|) when
\* find_optimal_k is called, no K-means run of the sweep has more clusters than
\* vectors, and the returned k never exceeds |vectors|.
C5_CallersClamp ==
    Pipeline =>
        /\ top_end # 0 => (top_end <= N /\ top_end <= max_clusters
                           /\ top_end \in {N, max_clusters})
        /\ \A i \in 1..Len(runs) : runs[i] <= N
        /\ kmeans_numC # None => kmeans_numC <= N

C5_Witness ==
    /\ Pipeline
    /\ N < max_clusters
    /\ top_end = N
    /\ SelectorReturned
    /\ runs # <<>>

\* C9: in viz_job_data_word2vec a record with empty text among records that
\* vectorize does not abort the run; its undefined vector is filtered out and
\* the plotted points are the other records, without the degraded one.
Degraded == {p \in 1..N : viz_df[p].text = <<>>}
C9_DegradedIsolated ==
    (/\ entry = "w2v"
     /\ pc # "vectorize"
     /\ Degraded # {}
     /\ Degraded # 1..N
     /\ \A p \in (1..N) \ Degraded : vectors[p].kind = "vec") =>
        /\ pc # "aborted"
        /\ pc = "done" =>
             /\ {points[j].rec : j \in 1..Len(points)} = (1..N) \ Degraded
             /\ \A j \in 1..Len(points) : Complete(points[j])

\* C10: assembling N records with N labels and N projected points gives
\* N - |dropped| points in input order, a record being dropped exactly when its
\* projection or label is missing, for any row index and whatever metadata is
\* missing; no partial point is emitted.
Dropped == {p \in 1..N : labels[p] = 0 \/ proj[p] = 0}
Kept == SelectSeq([p \in 1..N |-> p], LAMBDA p : p \notin Dropped)
C10_AssemblesAllRecords ==
    (Pipeline /\ pc = "done") =>
        /\ Len(points) = N - Cardinality(Dropped)
        /\ [j \in 1..Len(points) |-> points[j].rec] = Kept
        /\ \A j \in 1..Len(points) :
             /\ Complete(points[j])
             /\ points[j].kmeans = labels[points[j].rec]
             /\ points[j].coord = proj[points[j].rec]

(***************************************************************************)
(* The caller's frame, the elbow chart and the K-means calls               *)
(***************************************************************************)
\* an entry point that takes the caller's frame has run to its end
CallEnded == entry # "direct" /\ pc \in {"done", "aborted"}

\* C12: after a call of viz_job_data, viz_job_data_word2vec or
\* vizjobs_googleUSE the caller's frame has the columns it had before the call.
C12_CallerFrameUnchanged == CallEnded => caller_cols = BaseCols

\* C13: on every path on which find_optimal_k returns a k the chart carries a
\* marker at that k, and has been shown and written when that was requested.
C13_ChartMarkedAndShown ==
    SelectorReturned =>
        /\ fk.marker = kmeans_numC
        /\ show_plot => fk.shown
        /\ write_image => fk.written

\* the calls of one find_optimal_k call, without the caller's hero.kmeans
SelectorCalls == SelectSeq(trace, LAMBDA e : e.op # "hero.kmeans")
FitCalls == SelectSeq(trace, LAMBDA e : e.op = "fit_transform")
SweepCalls == SelectSeq(trace, LAMBDA e : e.op = "KMeans")
FinalCalls == SelectSeq(trace, LAMBDA e : e.op = "hero.kmeans")

\* C14: in one call of find_optimal_k the scaler is fit exactly once, before
\* the first K-means run; every K-means run of the sweep is fit on the matrix
\* that fit produced; the input vectors are what they were before the call.
C14_ScalerFitOnce ==
    top_end # 0 =>
        /\ Len(FitCalls) = 1
        /\ SelectorCalls[1].op = "fit_transform"
        /\ Len(SweepCalls) = Len(runs)
        /\ \A i \in 1..Len(SweepCalls) :
             /\ SweepCalls[i].k = runs[i]
             /\ SweepCalls[i].X = "scaled_features"
             /\ SweepCalls[i].fit = Len(FitCalls)
        /\ vectors = [p \in 1..N |-> RowVector(entry, w2v_model, viz_df[p].text)]

C14_Witness ==
    /\ SelectorReturned
    /\ Len(FitCalls) = 1
    /\ Len(SweepCalls) >= 4
    /\ \E i, j \in 1..Len(SweepCalls) : i < j /\ SweepCalls[i].k = SweepCalls[j].k

\* C15: the final clustering runs on the standardized features of the sweep
\* and with the K-means configuration of the sweep.
C15_FinalClusteringAsSweep ==
    Pipeline =>
        \A i \in 1..Len(FinalCalls) :
            /\ FinalCalls[i].X = "scaled_features"
            /\ FinalCalls[i].cfg = SweepKwargs

\* C18: every k that find_optimal_k returns is a k of the curve, and it is
\* never None.
C18_ReturnedKOnCurve ==
    SelectorReturned =>
        /\ kmeans_numC # None
        /\ \E i \in 1..Len(curve) : curve[i] = kmeans_numC

(***************************************************************************)
(* Two runs of vizjobs_googleUSE on the same records                       *)
(***************************************************************************)
OtherVizType(vt) == IF vt = "tsne" THEN "pca" ELSE "tsne"

\* the call has ended; it is made again on an equal frame with the other
\* viz_type.  The embedding, the sweep (random_state=42) and KneeLocator are
\* functions of the records, so the knee search gives what it gave before.
Rerun ==
    /\ entry = "use"
    /\ run_no = 1
    /\ pc \in {"done", "aborted"}
    /\ first_run' = [viz_type |-> viz_type, kmeans_numC |-> kmeans_numC,
                     n_clusters |-> n_clusters, labels |-> labels, trace |-> trace]
    /\ run_no' = 2
    /\ viz_type' = OtherVizType(viz_type)
    /\ pc' = "vectorize"
    /\ vectors' = <<>> /\ top_end' = 0 /\ runs' = <<>> /\ curve' = <<>>
    /\ onk' = None /\ warned' = {} /\ kmeans_numC' = None /\ n_clusters' = 0
    /\ labels' = <<>> /\ proj' = <<>> /\ points' = <<>> /\ shown' = FALSE
    /\ abort_at' = ""
    /\ fk' = NoChart /\ trace' = <<>> /\ caller_cols' = BaseCols
    /\ UNCHANGED <<entry, viz_df, max_clusters, show_plot, write_image, kl_memo>>
    /\ UNCHANGED <<vvars, mvars, tvars>>

InitTwoRuns == Init /\ entry = "use"

NextTwoRuns ==
    \/ Next
    \/ Rerun

SpecTwoRuns == InitTwoRuns /\ [][NextTwoRuns]_vars

\* C11: every K-means run of vizjobs_googleUSE takes the embedding column or
\* the matrix standardized from it, never the projected coordinates, and a
\* second run on the same records with the other viz_type chooses the same k
\* and gives the same cluster assignment from the same K-means call.
C11_ProjectionDoesNotInfluenceClustering ==
    /\ \A i \in 1..Len(FinalCalls) : FinalCalls[i].X = "use_vec"
    /\ \A i \in 1..Len(SweepCalls) : SweepCalls[i].X = "scaled_features"
    /\ \A i \in 1..Len(trace) : trace[i].X \notin {"pca", "TSNE"}
    /\ (run_no = 2 /\ pc \notin {"vectorize", "select"}) =>
          /\ viz_type # first_run.viz_type
          /\ kmeans_numC = first_run.kmeans_numC
          /\ SweepCalls = SelectSeq(first_run.trace, LAMBDA e : e.op = "KMeans")
    /\ (run_no = 2 /\ pc \notin {"vectorize", "select", "cluster"}) =>
          /\ n_clusters = first_run.n_clusters
          /\ labels = first_run.labels
          /\ FinalCalls = SelectSeq(first_run.trace, LAMBDA e : e.op = "hero.kmeans")

C11_Witness ==
    /\ run_no = 2
    /\ pc = "done"
    /\ viz_type = "tsne"
    /\ first_run.viz_type = "pca"
    /\ Len(labels) >= 2
    /\ labels = first_run.labels
    /\ Len(FinalCalls) = 1

(***************************************************************************)
(* The script: flags, loading, two queries of two calls each               *)
(***************************************************************************)
\* visualization calls per query, and in the script
CallsPerQuery == 2
CallsInScript == 4

\* the frames a query hands to its calls: viz1_df = q1_processed.copy()
MainFrames == Frames

\* using_google_USE, using_gensim_w2v; the script sets them to True, False
InitMain ==
    /\ input_text = <<>> /\ cutoff = DefaultCutoff
    /\ w2v_model = [has_wv |-> TRUE]
    /\ VecIdle
    /\ PipelineIdle
    /\ ExtIdle /\ TextIdle
    /\ main_pc = "load_use"
    /\ using_google_USE \in BOOLEAN
    /\ using_gensim_w2v \in BOOLEAN
    /\ loads = NoLoads /\ call_no = 0 /\ call_source = "none"

\* if using_google_USE: meine_embeddings = load_google_USE()
LoadUSE ==
    /\ main_pc = "load_use"
    /\ loads' = IF using_google_USE THEN [loads EXCEPT !.use = @ + 1] ELSE loads
    /\ main_pc' = "load_w2v"
    /\ UNCHANGED <<using_google_USE, using_gensim_w2v, call_no, call_source>>
    /\ UNCHANGED <<vvars, pvars, xvars, tvars>>

\* if using_gensim_w2v: w2v_model = load_gensim_word2vec(); the default name
\* "'glove-wiki-gigaword-300" is no name of the catalogue and api.load raises
LoadW2V ==
    /\ main_pc = "load_w2v"
    /\ main_pc' = IF using_gensim_w2v THEN "crashed" ELSE "scrape"
    /\ UNCHANGED <<using_google_USE, using_gensim_w2v, loads, call_no, call_source>>
    /\ UNCHANGED <<vvars, pvars, xvars, tvars>>

\* find_CHjobs_from, indeed_postprocess, .copy(), .drop(columns=...)
Scrape ==
    /\ main_pc = "scrape"
    /\ viz_df' \in MainFrames
    /\ caller_cols' = BaseCols
    /\ main_pc' = "call"
    /\ UNCHANGED <<using_google_USE, using_gensim_w2v, loads, call_no, call_source>>
    /\ UNCHANGED <<entry, max_clusters, viz_type, pc, vectors, top_end, runs, curve, onk,
                   warned, kmeans_numC, n_clusters, labels, proj, points, shown, abort_at>>
    /\ UNCHANGED <<show_plot, write_image, fk, trace, kl_memo, run_no, first_run>>
    /\ UNCHANGED <<vvars, tvars>>

\* if using_google_USE: vizjobs_googleUSE(viz1_df, ..., meine_embeddings, ...)
\* else: viz_job_data_word2vec(viz1_df, ..., viz_type="pca"), which has no
\* parameter viz_type and reads the global w2v_model
CallViz ==
    /\ main_pc = "call"
    /\ call_no' = call_no + 1
    /\ IF using_google_USE
       THEN /\ call_source' = "use"
            /\ main_pc' = "in_call"
            /\ entry' = "use"
            /\ max_clusters' = DefaultMaxClusters
            /\ viz_type' = IF call_no < CallsPerQuery THEN "pca" ELSE "tsne"
            /\ pc' = "vectorize"
            /\ vectors' = <<>> /\ top_end' = 0 /\ runs' = <<>> /\ curve' = <<>>
            /\ onk' = None /\ warned' = {} /\ kmeans_numC' = None /\ n_clusters' = 0
            /\ labels' = <<>> /\ proj' = <<>> /\ points' = <<>> /\ shown' = FALSE
            /\ abort_at' = ""
            /\ fk' = NoChart /\ trace' = <<>> /\ kl_memo' = NoMemo
       ELSE /\ call_source' = "w2v"
            /\ main_pc' = "crashed"
            /\ UNCHANGED <<entry, max_clusters, viz_type, pc, vectors, top_end, runs,
                           curve, onk, warned, kmeans_numC, n_clusters, labels, proj,
                           points, shown, abort_at, fk, trace, kl_memo>>
    /\ UNCHANGED <<using_google_USE, using_gensim_w2v, loads>>
    /\ UNCHANGED <<viz_df, show_plot, write_image, caller_cols, run_no, first_run>>
    /\ UNCHANGED <<vvars, tvars>>

\* the call returns to the script, or its exception ends the script
ReturnViz ==
    /\ main_pc = "in_call"
    /\ pc \in {"done", "aborted"}
    /\ main_pc' = IF pc = "aborted" THEN "crashed"
                  ELSE IF call_no = CallsInScript THEN "end"
                  ELSE IF call_no = CallsPerQuery THEN "scrape"
                  ELSE "call"
    /\ UNCHANGED <<using_google_USE, using_gensim_w2v, loads, call_no, call_source>>
    /\ UNCHANGED <<vvars, pvars, xvars, tvars>>

NextMain ==
    \/ LoadUSE
    \/ LoadW2V
    \/ Scrape
    \/ CallViz
    \/ ReturnViz
    \/ Next

SpecMain == InitMain /\ [][NextMain]_vars

\* C16: for every setting of the flags, the Embedding Source a visualization
\* call uses has been loaded exactly once before the call.
C16_SourceLoadedOnceBeforeUse ==
    call_source # "none" => loads[call_source] = 1

(***************************************************************************)
(* text_first_N and the text of a plotted point                            *)
(***************************************************************************)
MaxNum == 3
\* text_first_N(text, num=40)
DefaultNum == 40
\* viz_df["companies"].apply(text_first_N, num=15)
LabelNum == 15

Marker == <<".", ".", ".">>

\* return text[:num] + "..." if len(text) > num else text, for a str and
\* num >= 0
text_first_N(text, num) ==
    IF Len(text) > num THEN SubSeq(text, 1, num) \o Marker ELSE text

Repeat(c, n) == [i \in 1..n |-> c]

\* field values: short ones, and ones at and beyond the two preview lengths
FieldTexts ==
    SeqsUpTo(Alphabet, MaxNum - 1)
        \cup {Repeat("a", n) : n \in {LabelNum, LabelNum + 1, DefaultNum, DefaultNum + 1}}

FreeTextCols == {"titles", "companies", "summary"}

\* hv_list = list(viz_df.columns) without use_vec, tfidf, pca, TSNE, summary
HoverCols(cols) == cols \ {"use_vec", "tfidf", "pca", "TSNE", "summary"}

\* the columns of the frame when hv_list is taken
PlotCols == BaseCols \cup {"use_vec", "kmeans", "pca"}

InitText ==
    /\ input_text = <<>> /\ cutoff = DefaultCutoff
    /\ w2v_model = [has_wv |-> TRUE]
    /\ VecIdle
    /\ PipelineIdle
    /\ ExtIdle /\ MainIdle
    /\ t_text \in FieldTexts
    /\ t_num \in (0..MaxNum) \cup {LabelNum, DefaultNum}
    /\ t_show_text \in BOOLEAN
    /\ t_once = <<>> /\ t_twice = <<>> /\ t_plot = NoPlot /\ t_pc = "start"

\* text_first_N(t_text, t_num), and text_first_N of its result
TextFirstN ==
    /\ t_pc = "start"
    /\ t_once' = text_first_N(t_text, t_num)
    /\ t_twice' = text_first_N(text_first_N(t_text, t_num), t_num)
    /\ t_pc' = "truncated"
    /\ UNCHANGED <<t_text, t_num, t_show_text, t_plot>>
    /\ UNCHANGED <<vvars, pvars, xvars, mvars>>

\* the text of one point of px.scatter(viz_df, hover_data=hv_list,
\* text=graph_text_label) for a record whose free-text fields are t_text
PlotText ==
    /\ t_pc = "truncated"
    /\ t_plot' = [hover |-> [c \in HoverCols(PlotCols) |->
                                IF c \in FreeTextCols THEN t_text ELSE <<>>],
                  has_label |-> t_show_text,
                  label |-> IF t_show_text THEN text_first_N(t_text, LabelNum)
                            ELSE <<>>]
    /\ t_pc' = "plotted"
    /\ UNCHANGED <<t_text, t_num, t_show_text, t_once, t_twice>>
    /\ UNCHANGED <<vvars, pvars, xvars, mvars>>

NextText ==
    \/ TextFirstN
    \/ PlotText

SpecText == InitText /\ [][NextText]_vars

\* the first half of C17: unchanged up to num characters, else the first num
\* characters and the marker; never longer than num + 3; the same when
\* applied twice
TruncationLaw ==
    t_pc # "start" =>
        /\ Len(t_text) <= t_num => t_once = t_text
        /\ Len(t_text) > t_num =>
              /\ Len(t_once) = t_num + 3
              /\ SubSeq(t_once, 1, t_num) = SubSeq(t_text, 1, t_num)
              /\ SubSeq(t_once, t_num + 1, t_num + 3) = Marker
        /\ Len(t_once) <= t_num + 3
        /\ t_twice = t_once

\* C17: text_first_N truncates as described, and every free-text field of a
\* plotted point is the text_first_N of the record's field at one of the
\* preview lengths the program uses.
C17_PlottedTextTruncated ==
    /\ TruncationLaw
    /\ t_pc = "plotted" =>
          \A c \in DOMAIN t_plot.hover \cap FreeTextCols :
              \E num \in {LabelNum, DefaultNum} :
                  t_plot.hover[c] = text_first_N(t_text, num)

====
